---- MODULE Spec2Model ----
(***************************************************************************)
(* Model of the booking-widget front end: the Lead Panel accordion         *)
(* (LeadInfoAccordion.tsx), the calendar heat map (CalendarHeatMap.tsx),   *)
(* the day-slot view (DaySlots) with the backend calls of calendar-api.ts, *)
(* and the service-area map (ServiceAreaMap.tsx).                          *)
(*                                                                         *)
(* Each React component instance is a state machine: its useState cells    *)
(* and props are variables, every event handler / effect / promise         *)
(* continuation is one action.  A variable named ...Last records which     *)
(* handler ran last and ...Calls records the parent callbacks that         *)
(* handler invoked.                                                        *)
(***************************************************************************)
EXTENDS Integers, Sequences, FiniteSets, TLC

VARIABLES
    \* ---- LeadInfoAccordion ----
    expandedSections,   \* useState<Set<string>>
    leadData,           \* prop: Null or a Lead Record
    isLoading,          \* prop
    leadError,          \* prop `error`
    leadLast,           \* last handler of the accordion, with the section key
    \* ---- CalendarHeatMap / DaySlots ----
    mounted,            \* which calendar component instance is mounted
    supabase,           \* getSupabase() returns a client (TRUE) or null
    onErrorGiven,       \* the optional onError prop is supplied
    availability,       \* backend: the classified days it serves
    daySlotList,        \* backend: the slots of a day it serves
    hmPostcode,         \* CalendarHeatMap prop `postcode`
    hmLoading,          \* CalendarHeatMap useState loading
    heatMapData,        \* CalendarHeatMap useState heatMapData
    hmError,            \* CalendarHeatMap useState error
    hmInflight,         \* pending get-calendar-heatmap invocations
    hmLast,             \* last handler of the heat map
    hmCalls,            \* parent callbacks invoked by that handler
    hmStale,            \* history: a fetch failed since heatMapData was set
    dsPostcode,         \* DaySlots prop `postcode`
    dsDate,             \* DaySlots prop `date`
    dsLoading,          \* DaySlots useState loading
    slotsData,          \* DaySlots useState slotsData
    dsError,            \* DaySlots useState error
    dsInflight,         \* pending get-day-slots invocations
    dsLast,             \* last handler of the day-slot view
    dsCalls,            \* parent callbacks invoked by that handler
    dsStale,            \* history: a fetch failed since slotsData was set
    \* ---- ServiceAreaMap ----
    geoJsonData,        \* useState geoJsonData
    mapLoaded,          \* useState mapLoaded
    map,                \* useRef map: Null or the map's sources and layers
    marker,             \* useRef marker: Null or the marker position
    coordinates,        \* prop
    onServiceAreaCheckGiven, \* the optional onServiceAreaCheck prop is supplied
    geoFetch,           \* state of the fetch of /service_areas.geojson
    serviceAreasFile,   \* the static asset /service_areas.geojson
    mapLast,            \* last effect of the map
    mapCalls            \* parent callbacks invoked by that effect

leadVars == <<expandedSections, leadData, isLoading, leadError, leadLast>>
hmVars == <<hmPostcode, hmLoading, heatMapData, hmError, hmInflight, hmLast,
            hmCalls, hmStale>>
dsVars == <<dsPostcode, dsDate, dsLoading, slotsData, dsError, dsInflight,
            dsLast, dsCalls, dsStale>>
envVars == <<mounted, supabase, onErrorGiven, availability, daySlotList>>
calVars == <<envVars, hmVars, dsVars>>
mapVars == <<geoJsonData, mapLoaded, map, marker, coordinates,
             onServiceAreaCheckGiven, geoFetch, serviceAreasFile, mapLast,
             mapCalls>>
vars == <<leadVars, calVars, mapVars>>

\* What the handlers of one component leave alone: the other components.
leadFrame == <<calVars, mapVars>>
hmFrame == <<envVars, dsVars, leadVars, mapVars>>
dsFrame == <<envVars, hmVars, leadVars, mapVars>>
mapFrame == <<leadVars, calVars>>

\* JavaScript null: Null for object-valued cells, NullStr for string-valued,
\* NullPoint for coordinate pairs.
Null == [null |-> TRUE]
NullStr == "<null>"
NullPoint == <<>>

(***************************************************************************)
(* Generic helpers                                                         *)
(***************************************************************************)
RECURSIVE SeqsUpTo(_, _)
SeqsUpTo(S, n) ==
    IF n = 0 THEN {<<>>}
    ELSE LET shorter == SeqsUpTo(S, n - 1)
         IN  shorter \cup {Append(s, x) : s \in shorter, x \in S}

Range(s) == {s[i] : i \in 1..Len(s)}

(***************************************************************************)
(* LeadInfoAccordion                                                       *)
(***************************************************************************)
\* The keys of leadData.sections (type LeadData of lib/lead-api).
LeadSectionKeys ==
    {"contact", "leadManagement", "property", "waterAssessment",
     "appointment", "referrals", "salesNotes", "statusFlags"}

LeadIds == {"lead-1", "lead-2"}
LeadRecords == [id : LeadIds, sections : {LeadSectionKeys}]
LeadErrors == {NullStr, "Failed to load lead"}

\* useState initial value
InitialExpanded ==
    {"contact", "leadManagement", "property", "waterAssessment",
     "appointment", "referrals", "salesNotes", "statusFlags"}

sectionOrder ==
    <<"contact", "leadManagement", "property", "waterAssessment",
      "appointment", "referrals", "salesNotes", "statusFlags">>

\* The accordion body is rendered only past the three early returns.
LeadRendered == ~isLoading /\ leadError = NullStr /\ leadData # Null

allExpanded == Cardinality(expandedSections) = Len(sectionOrder)
allCollapsed == Cardinality(expandedSections) = 0

\* Variant: toggling can only collapse.
ToggleSet_OnlyCollapse(prev, sectionKey) == prev \ {sectionKey}

\* The updater passed to setExpandedSections by toggleSection.
ToggleSet(prev, sectionKey) ==
    IF sectionKey \in prev THEN prev \ {sectionKey} ELSE prev \cup {sectionKey}

\* Variant: expandAll leaves the last section out.
ExpandAllSet_MissesOne(prev, data) ==
    IF data # Null THEN data.sections \ {"statusFlags"} ELSE prev

\* The set expandAll stores: Object.keys(leadData.sections), when leadData.
ExpandAllSet(prev, data) == IF data # Null THEN data.sections ELSE prev

CollapseAllSet == {}

LeadInit ==
    /\ expandedSections = InitialExpanded
    /\ leadData \in {Null} \cup LeadRecords
    /\ isLoading \in BOOLEAN
    /\ leadError \in LeadErrors
    /\ leadLast = [op |-> "mount", key |-> NullStr]

toggleSection(sectionKey) ==
    /\ UNCHANGED leadFrame
    /\ LeadRendered
    /\ expandedSections' = ToggleSet(expandedSections, sectionKey)
    /\ leadLast' = [op |-> "toggleSection", key |-> sectionKey]
    /\ UNCHANGED <<leadData, isLoading, leadError>>

expandAll ==
    /\ UNCHANGED leadFrame
    /\ LeadRendered
    /\ ~allExpanded                       \* disabled={allExpanded}
    /\ expandedSections' = ExpandAllSet(expandedSections, leadData)
    /\ leadLast' = [op |-> "expandAll", key |-> NullStr]
    /\ UNCHANGED <<leadData, isLoading, leadError>>

collapseAll ==
    /\ UNCHANGED leadFrame
    /\ LeadRendered
    /\ ~allCollapsed                      \* disabled={allCollapsed}
    /\ expandedSections' = CollapseAllSet
    /\ leadLast' = [op |-> "collapseAll", key |-> NullStr]
    /\ UNCHANGED <<leadData, isLoading, leadError>>

\* The parent re-renders the accordion with other props; state is kept.
LeadSetProps ==
    /\ UNCHANGED leadFrame
    /\ \E d \in {Null} \cup LeadRecords, l \in BOOLEAN, e \in LeadErrors :
          /\ <<d, l, e>> # <<leadData, isLoading, leadError>>
          /\ leadData' = d
          /\ isLoading' = l
          /\ leadError' = e
    /\ leadLast' = [op |-> "props", key |-> NullStr]
    /\ UNCHANGED expandedSections

LeadNext ==
    \/ \E i \in 1..Len(sectionOrder) : toggleSection(sectionOrder[i])
    \/ expandAll
    \/ collapseAll
    \/ LeadSetProps

(***************************************************************************)
(* lib/calendar-api.ts: requests, responses and errors                     *)
(***************************************************************************)
MaxDays == 2        \* days in a heat-map response
MaxSlots == 2       \* time slots in a day-slots response
MaxInflight == 2    \* backend invocations pending at one time

\* Postcodes are strings of digits, kept as sequences so that .length and
\* parseInt are computed.
Postcodes == {<<>>, <<3, 0>>, <<3, 0, 0, 0>>, <<4, 0, 0, 0>>}
NaN == -1
RECURSIVE DigitsValue(_)
DigitsValue(p) ==
    IF p = <<>> THEN 0 ELSE 10 * DigitsValue(SubSeq(p, 1, Len(p) - 1)) + p[Len(p)]
ParseInt(p) == IF p = <<>> THEN NaN ELSE DigitsValue(p)

DateNames == <<"2025-06-02", "2025-06-03", "2025-06-04", "2025-06-05">>

\* Error objects raised by the two calls.
ClientMissing == [isError |-> TRUE, message |-> "Supabase client not available"]
\* error.message of a failed supabase.functions.invoke ("" when absent).
InvokeErrorMessages == {"", "Edge Function returned a non-2xx status code"}
HeatMapInvokeError(m) ==
    [isError |-> TRUE,
     message |-> IF m # "" THEN m ELSE "Failed to fetch calendar availability"]
DaySlotsInvokeError(m) ==
    [isError |-> TRUE,
     message |-> IF m # "" THEN m ELSE "Failed to fetch day slots"]

\* body of the get-calendar-heatmap invocation
HeatMapRequest(postcode, daysAhead) ==
    [postcode |-> ParseInt(postcode), days_ahead |-> daysAhead]
\* body of the get-day-slots invocation
DaySlotsRequest(postcode, date) ==
    [postcode |-> ParseInt(postcode), date |-> date]

RemoveAt(s, i) == SubSeq(s, 1, i - 1) \o SubSeq(s, i + 1, Len(s))

RECURSIVE SumCounts(_)
SumCounts(days) ==
    IF days = <<>> THEN 0
    ELSE days[1].available_count + SumCounts(Tail(days))

(***************************************************************************)
(* The backend (supabase functions): the responses it can produce          *)
(***************************************************************************)
TierNames == <<"critical", "urgent", "warm", "cooling">>
AvailableCounts == {0, 3}

\* The availability the backend holds: the classified days from today on,
\* each with its tier (an index of TierNames) and its free-slot count.  The
\* tier of a day never precedes the tier of an earlier day.
Availabilities ==
    {a \in SeqsUpTo([tier : 1..Len(TierNames), count : AvailableCounts], MaxDays) :
        \A i \in 1..(Len(a) - 1) : a[i].tier <= a[i + 1].tier}

DayEntry(a, d) ==
    [date |-> DateNames[d], day_number |-> d,
     available_count |-> a[d].count, priority |-> TierNames[a[d].tier]]

\* The days of one tier, in date order.
RECURSIVE TierDays(_, _, _)
TierDays(a, t, d) ==
    IF d > Len(a) THEN <<>>
    ELSE (IF TierNames[a[d].tier] = t THEN <<DayEntry(a, d)>> ELSE <<>>)
         \o TierDays(a, t, d + 1)

TierGroup(a, t) ==
    LET days == TierDays(a, t, 1)
    IN  [label |-> t, days |-> days, total_slots |-> SumCounts(days)]

\* The service area a postcode belongs to.
ServiceAreaNameOf(pc) == [postcode |-> pc]

\* data of a successful get-calendar-heatmap invocation
HeatMapResponse(a, req) ==
    [service_area_name |-> ServiceAreaNameOf(req.postcode),
     priority_breakdown |->
         [critical |-> TierGroup(a, "critical"),
          urgent |-> TierGroup(a, "urgent"),
          warm |-> TierGroup(a, "warm"),
          cooling |-> TierGroup(a, "cooling")]]

SlotHours == {9, 12, 14}
Periods == <<"morning", "afternoon", "evening">>
PeriodIndex(p) == CHOOSE i \in 1..Len(Periods) : Periods[i] = p
SlotKinds == [hour : SlotHours, period : Range(Periods)]
SlotRank(k) == 10 * k.hour + PeriodIndex(k.period)

\* The bookable slots of a day the backend holds, in time order.
DaySlotLists ==
    {l \in SeqsUpTo(SlotKinds, MaxSlots) :
        \A i \in 1..(Len(l) - 1) : SlotRank(l[i]) < SlotRank(l[i + 1])}

\* The flat slot list of a day: event ids are the positions.
SlotList(kinds) ==
    [i \in 1..Len(kinds) |->
        [event_id |-> i, hour |-> kinds[i].hour, period |-> kinds[i].period]]

SlotsOfPeriod(slots, p) == SelectSeq(slots, LAMBDA s : s.period = p)

\* data of a successful get-day-slots invocation
DaySlotsResponse(kinds, req) ==
    LET slots == SlotList(kinds)
    IN  [date |-> req.date,
         total_slots |-> Len(slots),
         slots |-> slots,
         grouped_by_period |->
             [morning |-> SlotsOfPeriod(slots, "morning"),
              afternoon |-> SlotsOfPeriod(slots, "afternoon"),
              evening |-> SlotsOfPeriod(slots, "evening")]]

(***************************************************************************)
(* CalendarHeatMap: rendering                                              *)
(***************************************************************************)
\* Which of the four returns of the component body is taken.
HMView ==
    IF hmLoading THEN "spinner"
    ELSE IF hmError # NullStr /\ hmError # "" THEN "error"
    ELSE IF heatMapData = Null THEN "placeholder"
    ELSE "content"

\* Variant: the buttons are never disabled.
DayDisabled_Never(day) == FALSE

\* disabled attribute of the button of DayRow / DayCard
DayDisabled(day) == day.available_count = 0

DayRow(day) == [kind |-> "row", day |-> day, disabled |-> DayDisabled(day)]
DayCard(day) == [kind |-> "card", day |-> day, disabled |-> DayDisabled(day)]

\* PrioritySection: <<>> for the null it returns, else the one section.
PrioritySection(tier, compact) ==
    IF Len(tier.days) = 0 THEN <<>>
    ELSE <<[label |-> tier.label,
            total_slots |-> tier.total_slots,
            compact |-> compact,
            cells |-> [i \in 1..Len(tier.days) |->
                          IF compact THEN DayCard(tier.days[i])
                          ELSE DayRow(tier.days[i])]]>>

\* Variant: the warm section is placed before the urgent one.
HeatMapSections_WarmFirst(data) ==
    LET pb == data.priority_breakdown
    IN  PrioritySection(pb.critical, FALSE) \o PrioritySection(pb.warm, TRUE)
        \o PrioritySection(pb.urgent, FALSE) \o PrioritySection(pb.cooling, TRUE)

\* The children of hs-heatmap-sections, in document order.
HeatMapSections(data) ==
    LET pb == data.priority_breakdown
    IN  (IF Len(pb.critical.days) > 0
         THEN PrioritySection(pb.critical, FALSE) ELSE <<>>)
        \o (IF Len(pb.urgent.days) > 0
            THEN PrioritySection(pb.urgent, FALSE) ELSE <<>>)
        \o (IF Len(pb.warm.days) > 0
            THEN PrioritySection(pb.warm, TRUE) ELSE <<>>)
        \o (IF Len(pb.cooling.days) > 0
            THEN PrioritySection(pb.cooling, TRUE) ELSE <<>>)

RenderedSections == IF HMView = "content" THEN HeatMapSections(heatMapData) ELSE <<>>

(***************************************************************************)
(* CalendarHeatMap: handlers                                               *)
(***************************************************************************)
\* catch clause of fetchHeatMap
HeatMapCatchMessage(err) ==
    IF err.isError THEN err.message ELSE "Failed to load availability"

\* Variant: the error is not forwarded to the parent.
OnErrorCalls_Never(message) == <<>>

\* onError?.(message)
OnErrorCalls(message) ==
    IF onErrorGiven THEN <<[fn |-> "onError", message |-> message]>> ELSE <<>>

HMInit ==
    /\ hmPostcode \in (IF mounted = "CalendarHeatMap" THEN Postcodes ELSE {<<>>})
    /\ hmLoading = FALSE
    /\ heatMapData = Null
    /\ hmError = NullStr
    /\ hmInflight = <<>>
    /\ hmLast = [op |-> "init", outcome |-> "none"]
    /\ hmCalls = <<>>
    /\ hmStale = FALSE

\* Variant: the catch clause does not store the message.
HMFail_NoSetError(op, err) ==
    LET message == HeatMapCatchMessage(err)
    IN  /\ hmCalls' = OnErrorCalls(message)
        /\ hmLoading' = FALSE
        /\ hmLast' = [op |-> op, outcome |-> "failed"]
        /\ hmStale' = (heatMapData # Null)
        /\ UNCHANGED <<heatMapData, hmError>>

\* catch + finally of fetchHeatMap
HMFail(op, err) ==
    LET message == HeatMapCatchMessage(err)
    IN  /\ hmError' = message
        /\ hmCalls' = OnErrorCalls(message)
        /\ hmLoading' = FALSE
        /\ hmLast' = [op |-> op, outcome |-> "failed"]
        /\ hmStale' = (heatMapData # Null)
        /\ UNCHANGED heatMapData

\* fetchHeatMap up to the await of the invocation.  Without a client
\* getCalendarHeatMap rejects before any other event can be handled, so the
\* catch and finally clauses complete the same step.
fetchHeatMap(op, postcode) ==
    IF supabase
    THEN /\ Len(hmInflight) < MaxInflight
         /\ hmLoading' = TRUE
         /\ hmError' = NullStr
         /\ hmInflight' = Append(hmInflight, HeatMapRequest(postcode, 14))
         /\ hmLast' = [op |-> op, outcome |-> "pending"]
         /\ hmCalls' = <<>>
         /\ UNCHANGED <<heatMapData, hmStale>>
    ELSE /\ HMFail(op, ClientMissing)
         /\ UNCHANGED hmInflight

\* useEffect(..., [postcode])
HMEffect(postcode) ==
    IF postcode # <<>> /\ Len(postcode) = 4
    THEN fetchHeatMap("effect", postcode)
    ELSE /\ hmLast' = [op |-> "effect", outcome |-> "none"]
         /\ hmCalls' = <<>>
         /\ UNCHANGED <<hmLoading, heatMapData, hmError, hmInflight, hmStale>>

HMMount ==
    /\ UNCHANGED hmFrame
    /\ mounted = "CalendarHeatMap"
    /\ hmLast.op = "init"
    /\ HMEffect(hmPostcode)
    /\ UNCHANGED hmPostcode

HMSetPostcode(p) ==
    /\ UNCHANGED hmFrame
    /\ mounted = "CalendarHeatMap"
    /\ hmLast.op # "init"
    /\ p # hmPostcode
    /\ hmPostcode' = p
    /\ HMEffect(p)

\* onClick of the Try Again button
HMTryAgain ==
    /\ UNCHANGED hmFrame
    /\ mounted = "CalendarHeatMap"
    /\ HMView = "error"
    /\ fetchHeatMap("tryAgain", hmPostcode)
    /\ UNCHANGED hmPostcode

\* Variant: a response is stored only when it answers the latest request.
HMResolve_LatestOnly(i, data) ==
    /\ heatMapData' = (IF i = Len(hmInflight) THEN data ELSE heatMapData)
    /\ hmLoading' = FALSE
    /\ hmInflight' = RemoveAt(hmInflight, i)
    /\ hmLast' = [op |-> "settle", outcome |-> "ok"]
    /\ hmCalls' = <<>>
    /\ hmStale' = FALSE
    /\ UNCHANGED <<hmPostcode, hmError>>

\* The invocation i resolves with data: setHeatMapData, finally.
HMResolve(i, data) ==
    /\ heatMapData' = data
    /\ hmLoading' = FALSE
    /\ hmInflight' = RemoveAt(hmInflight, i)
    /\ hmLast' = [op |-> "settle", outcome |-> "ok"]
    /\ hmCalls' = <<>>
    /\ hmStale' = FALSE
    /\ UNCHANGED <<hmPostcode, hmError>>

\* The invocation i returns an error payload: throw, catch, finally.
HMReject(i, m) ==
    /\ HMFail("settle", HeatMapInvokeError(m))
    /\ hmInflight' = RemoveAt(hmInflight, i)
    /\ UNCHANGED hmPostcode

HMSettle ==
    /\ UNCHANGED hmFrame
    /\ mounted = "CalendarHeatMap"
    /\ \E i \in 1..Len(hmInflight) :
          \/ HMResolve(i, HeatMapResponse(availability, hmInflight[i]))
          \/ \E m \in InvokeErrorMessages : HMReject(i, m)

\* onClick of an enabled DayRow / DayCard button
HMDayClick ==
    /\ UNCHANGED hmFrame
    /\ mounted = "CalendarHeatMap"
    /\ \E s \in 1..Len(RenderedSections) :
          \E c \in 1..Len(RenderedSections[s].cells) :
             LET cell == RenderedSections[s].cells[c]
             IN  /\ ~cell.disabled
                 /\ hmCalls' = <<[fn |-> "onDaySelect", date |-> cell.day.date,
                                  dayData |-> cell.day]>>
    /\ hmLast' = [op |-> "click", outcome |-> "none"]
    /\ UNCHANGED <<hmPostcode, hmLoading, heatMapData, hmError, hmInflight,
                   hmStale>>

HMNext ==
    \/ HMMount
    \/ \E p \in Postcodes : HMSetPostcode(p)
    \/ HMTryAgain
    \/ HMSettle
    \/ HMDayClick

(***************************************************************************)
(* DaySlots: rendering                                                     *)
(***************************************************************************)
DSPostcodes == {<<3, 0, 0, 0>>, <<4, 0, 0, 0>>}
DSDates == {DateNames[1], DateNames[2]}

DSView ==
    IF dsLoading THEN "spinner"
    ELSE IF dsError # NullStr /\ dsError # "" THEN "error"
    ELSE IF slotsData = Null THEN "nothing"
    ELSE "content"

\* SlotPeriod: a header with the slot count and one button per slot.
SlotPeriod(title, slots) ==
    [title |-> title, count |-> Len(slots), buttons |-> slots]

\* Variant: the evening bucket is never rendered.
DaySlotsContent_NoEvening(data) ==
    LET g == data.grouped_by_period
    IN  IF data.total_slots = 0
        THEN [empty |-> TRUE, periods |-> <<>>]
        ELSE [empty |-> FALSE,
              periods |->
                  (IF Len(g.morning) > 0
                   THEN <<SlotPeriod("Morning", g.morning)>> ELSE <<>>)
                  \o (IF Len(g.afternoon) > 0
                      THEN <<SlotPeriod("Afternoon", g.afternoon)>> ELSE <<>>)]

\* Variant: the empty-state test is missing.
DaySlotsContent_NoEmptyState(data) ==
    LET g == data.grouped_by_period
    IN  [empty |-> FALSE,
         periods |->
             (IF Len(g.morning) > 0
              THEN <<SlotPeriod("Morning", g.morning)>> ELSE <<>>)
             \o (IF Len(g.afternoon) > 0
                 THEN <<SlotPeriod("Afternoon", g.afternoon)>> ELSE <<>>)
             \o (IF Len(g.evening) > 0
                 THEN <<SlotPeriod("Evening", g.evening)>> ELSE <<>>)]

\* The children of hs-dayslots-content.
DaySlotsContent(data) ==
    LET g == data.grouped_by_period
    IN  IF data.total_slots = 0
        THEN [empty |-> TRUE, periods |-> <<>>]
        ELSE [empty |-> FALSE,
              periods |->
                  (IF Len(g.morning) > 0
                   THEN <<SlotPeriod("Morning", g.morning)>> ELSE <<>>)
                  \o (IF Len(g.afternoon) > 0
                      THEN <<SlotPeriod("Afternoon", g.afternoon)>> ELSE <<>>)
                  \o (IF Len(g.evening) > 0
                      THEN <<SlotPeriod("Evening", g.evening)>> ELSE <<>>)]

RenderedSlots ==
    IF DSView = "content" THEN DaySlotsContent(slotsData)
    ELSE [empty |-> FALSE, periods |-> <<>>]

(***************************************************************************)
(* DaySlots: handlers                                                      *)
(***************************************************************************)
\* catch clause of fetchDaySlots
DaySlotsCatchMessage(err) ==
    IF err.isError THEN err.message ELSE "Failed to load slots"

\* Variant: the designation is taken from the period tag.
SlotDesignation_FromPeriod(slot) == IF slot.period = "morning" THEN "AM" ELSE "PM"

\* AM/PM designation computed by handleSlotClick
SlotDesignation(slot) == IF slot.hour < 12 THEN "AM" ELSE "PM"

DSInit ==
    /\ dsPostcode \in (IF mounted = "DaySlots" THEN DSPostcodes ELSE {<<3, 0, 0, 0>>})
    /\ dsDate \in (IF mounted = "DaySlots" THEN DSDates ELSE {DateNames[1]})
    /\ dsLoading = FALSE
    /\ slotsData = Null
    /\ dsError = NullStr
    /\ dsInflight = <<>>
    /\ dsLast = [op |-> "init", outcome |-> "none"]
    /\ dsCalls = <<>>
    /\ dsStale = FALSE

\* catch + finally of fetchDaySlots
DSFail(op, err) ==
    LET message == DaySlotsCatchMessage(err)
    IN  /\ dsError' = message
        /\ dsCalls' = OnErrorCalls(message)
        /\ dsLoading' = FALSE
        /\ dsLast' = [op |-> op, outcome |-> "failed"]
        /\ dsStale' = (slotsData # Null)
        /\ UNCHANGED slotsData

\* Variant: the request is built from the props of the previous render.
fetchDaySlots_OldProps(op, postcode, date) ==
    IF supabase
    THEN /\ Len(dsInflight) < MaxInflight
         /\ dsLoading' = TRUE
         /\ dsError' = NullStr
         /\ dsInflight' = Append(dsInflight, DaySlotsRequest(dsPostcode, dsDate))
         /\ dsLast' = [op |-> op, outcome |-> "pending"]
         /\ dsCalls' = <<>>
         /\ UNCHANGED <<slotsData, dsStale>>
    ELSE /\ DSFail(op, ClientMissing)
         /\ UNCHANGED dsInflight

\* fetchDaySlots up to the await of the invocation (see fetchHeatMap).
fetchDaySlots(op, postcode, date) ==
    IF supabase
    THEN /\ Len(dsInflight) < MaxInflight
         /\ dsLoading' = TRUE
         /\ dsError' = NullStr
         /\ dsInflight' = Append(dsInflight, DaySlotsRequest(postcode, date))
         /\ dsLast' = [op |-> op, outcome |-> "pending"]
         /\ dsCalls' = <<>>
         /\ UNCHANGED <<slotsData, dsStale>>
    ELSE /\ DSFail(op, ClientMissing)
         /\ UNCHANGED dsInflight

\* useEffect(..., [postcode, date]) at mount
DSMount ==
    /\ UNCHANGED dsFrame
    /\ mounted = "DaySlots"
    /\ dsLast.op = "init"
    /\ fetchDaySlots("effect", dsPostcode, dsDate)
    /\ UNCHANGED <<dsPostcode, dsDate>>

\* useEffect(..., [postcode, date]) after a change of either prop
DSSetProps(p, d) ==
    /\ UNCHANGED dsFrame
    /\ mounted = "DaySlots"
    /\ dsLast.op # "init"
    /\ <<p, d>> # <<dsPostcode, dsDate>>
    /\ dsPostcode' = p
    /\ dsDate' = d
    /\ fetchDaySlots("effect", p, d)

\* onClick of the Try Again button
DSTryAgain ==
    /\ UNCHANGED dsFrame
    /\ mounted = "DaySlots"
    /\ DSView = "error"
    /\ fetchDaySlots("tryAgain", dsPostcode, dsDate)
    /\ UNCHANGED <<dsPostcode, dsDate>>

DSResolve(i, data) ==
    /\ slotsData' = data
    /\ dsLoading' = FALSE
    /\ dsInflight' = RemoveAt(dsInflight, i)
    /\ dsLast' = [op |-> "settle", outcome |-> "ok"]
    /\ dsCalls' = <<>>
    /\ dsStale' = FALSE
    /\ UNCHANGED <<dsPostcode, dsDate, dsError>>

DSReject(i, m) ==
    /\ DSFail("settle", DaySlotsInvokeError(m))
    /\ dsInflight' = RemoveAt(dsInflight, i)
    /\ UNCHANGED <<dsPostcode, dsDate>>

DSSettle ==
    /\ UNCHANGED dsFrame
    /\ mounted = "DaySlots"
    /\ \E i \in 1..Len(dsInflight) :
          \/ DSResolve(i, DaySlotsResponse(daySlotList, dsInflight[i]))
          \/ \E m \in InvokeErrorMessages : DSReject(i, m)

\* handleSlotClick, from the onClick of a slot button
handleSlotClick(slot) ==
    /\ dsCalls' = <<[fn |-> "onSlotSelect", date |-> dsDate,
                     period |-> SlotDesignation(slot), timeSlot |-> slot]>>
    /\ dsLast' = [op |-> "click", outcome |-> "none"]
    /\ UNCHANGED <<dsPostcode, dsDate, dsLoading, slotsData, dsError,
                   dsInflight, dsStale>>

DSSlotClick ==
    /\ UNCHANGED dsFrame
    /\ mounted = "DaySlots"
    /\ \E s \in 1..Len(RenderedSlots.periods) :
          \E b \in 1..Len(RenderedSlots.periods[s].buttons) :
             handleSlotClick(RenderedSlots.periods[s].buttons[b])

DSNext ==
    \/ DSMount
    \/ \E p \in DSPostcodes, d \in DSDates : DSSetProps(p, d)
    \/ DSTryAgain
    \/ DSSettle
    \/ DSSlotClick

(***************************************************************************)
(* The calendar specification: one mounted calendar component              *)
(***************************************************************************)
CalInit ==
    /\ mounted \in {"CalendarHeatMap", "DaySlots"}
    /\ supabase \in BOOLEAN
    /\ onErrorGiven \in BOOLEAN
    /\ availability \in (IF mounted = "CalendarHeatMap" THEN Availabilities ELSE {<<>>})
    /\ daySlotList \in (IF mounted = "DaySlots" THEN DaySlotLists ELSE {<<>>})
    /\ HMInit
    /\ DSInit

CalIdle ==
    /\ mounted = "none"
    /\ supabase = TRUE
    /\ onErrorGiven = FALSE
    /\ availability = <<>>
    /\ daySlotList = <<>>
    /\ hmPostcode = <<>>
    /\ dsPostcode = <<3, 0, 0, 0>>
    /\ dsDate = DateNames[1]
    /\ hmLoading = FALSE /\ dsLoading = FALSE
    /\ heatMapData = Null /\ slotsData = Null
    /\ hmError = NullStr /\ dsError = NullStr
    /\ hmInflight = <<>> /\ dsInflight = <<>>
    /\ hmLast = [op |-> "init", outcome |-> "none"]
    /\ dsLast = [op |-> "init", outcome |-> "none"]
    /\ hmCalls = <<>> /\ dsCalls = <<>>
    /\ hmStale = FALSE /\ dsStale = FALSE

LeadIdle ==
    /\ expandedSections = InitialExpanded
    /\ leadData = Null
    /\ isLoading = FALSE
    /\ leadError = NullStr
    /\ leadLast = [op |-> "mount", key |-> NullStr]

MapIdle ==
    /\ geoJsonData = Null
    /\ mapLoaded = FALSE
    /\ map = Null
    /\ marker = NullPoint
    /\ coordinates = NullPoint
    /\ onServiceAreaCheckGiven = FALSE
    /\ geoFetch = "idle"
    /\ serviceAreasFile = <<>>
    /\ mapLast = "init"
    /\ mapCalls = <<>>

CalNext ==
    \/ HMNext
    \/ DSNext

InitLead == LeadInit /\ CalIdle /\ MapIdle
SpecLead == InitLead /\ [][LeadNext]_vars

InitCalendar == CalInit /\ LeadIdle /\ MapIdle
SpecCalendar == InitCalendar /\ [][CalNext]_vars

(***************************************************************************)
(* ServiceAreaMap                                                          *)
(***************************************************************************)
MaxFeatures == 2    \* features in the polygon dataset

\* Coordinate pairs [lng, lat] the parent can supply.
Points == {<<0, 0>>, <<1, 0>>, <<3, 0>>}

\* Polygon geometries: two rectangles that share the meridian lng = 1.
WestBox == [w |-> 0, e |-> 1, s |-> -1, n |-> 1]
EastBox == [w |-> 1, e |-> 2, s |-> -1, n |-> 1]

Undefined == "<undefined>"
PurpleStyle == [token |-> "#poly-", hex |-> "9C27B0"]
NoStyle == [token |-> Undefined, hex |-> Undefined]

ServiceAreaPolygons ==
    [gtype : {"Polygon"}, ftype : {"service_area"},
     name : {Undefined, "North Zone", "South Zone"},
     style : {NoStyle, PurpleStyle}, box : {WestBox, EastBox}]
OtherPolygons ==
    [gtype : {"Polygon"}, ftype : {Undefined}, name : {"Depot"},
     style : {NoStyle}, box : {WestBox, EastBox}]
PointFeatures ==
    [gtype : {"Point"}, ftype : {"service_area"}, name : {"Office"},
     style : {NoStyle}, box : {[w |-> 1, e |-> 1, s |-> 0, n |-> 0]}]
FeatureKinds == ServiceAreaPolygons \cup OtherPolygons \cup PointFeatures
Datasets == SeqsUpTo(FeatureKinds, MaxFeatures)

\* getPolygonColor
getPolygonColor(style) ==
    IF style.token = Undefined THEN "#3388ff"
    ELSE IF style.token = "#poly-" THEN style.hex
    ELSE "#3388ff"

\* booleanPointInPolygon(point, polygon): the boundary counts as inside.
booleanPointInPolygon(pt, box) ==
    /\ box.w <= pt[1] /\ pt[1] <= box.e
    /\ box.s <= pt[2] /\ pt[2] <= box.n

\* Variant: the type of the feature is not tested.
IsServiceAreaPolygon_AnyPolygon(f) == f.gtype = "Polygon"

IsServiceAreaPolygon(f) == f.gtype = "Polygon" /\ f.ftype = "service_area"

\* feature.properties?.name || 'Unknown Area'
AreaNameOf(f) ==
    IF f.name = Undefined \/ f.name = "" THEN "Unknown Area" ELSE f.name

\* The for loop of the coordinates effect, from feature i on.
RECURSIVE FoundArea(_, _, _)
FoundArea(features, pt, i) ==
    IF i > Len(features) THEN NullStr
    ELSE IF /\ IsServiceAreaPolygon(features[i])
            /\ booleanPointInPolygon(pt, features[i].box)
         THEN AreaNameOf(features[i])
         ELSE FoundArea(features, pt, i + 1)

\* onServiceAreaCheck(foundArea !== null, foundArea)
ServiceAreaCheckCalls(data, pt) ==
    IF data # Null /\ onServiceAreaCheckGiven
    THEN LET foundArea == FoundArea(data.features, pt, 1)
         IN  <<[fn |-> "onServiceAreaCheck", inServiceArea |-> foundArea # NullStr,
                areaName |-> foundArea]>>
    ELSE <<>>

\* Colors of the service-area polygons in order of first appearance: the
\* keys of colorGroups as Object.entries lists them.
RECURSIVE GroupColors(_, _)
GroupColors(features, i) ==
    IF i = 0 THEN <<>>
    ELSE LET before == GroupColors(features, i - 1)
             color == getPolygonColor(features[i].style)
         IN  IF IsServiceAreaPolygon(features[i]) /\ color \notin Range(before)
             THEN Append(before, color) ELSE before

\* Variant: the getSource test is missing.
AddGroups_NoSourceCheck(m, colors, i) ==
    IF colors = <<>> THEN m
    ELSE [m EXCEPT
            !.sources = @ \o [k \in 1..Len(colors) |-> k - 1],
            !.layers = @ \o [k \in 1..(2 * Len(colors)) |->
                               IF k % 2 = 1 THEN <<"fill", (k - 1) \div 2>>
                               ELSE <<"line", (k - 1) \div 2>>]]

\* The forEach over the color groups, from group index i on (indices from 0).
\* sources and layers list the addSource / addLayer calls the map accepted.
RECURSIVE AddGroups(_, _, _)
AddGroups(m, colors, i) ==
    IF i >= Len(colors) THEN m
    ELSE AddGroups(
            IF i \in Range(m.sources) THEN m
            ELSE [m EXCEPT !.sources = Append(@, i),
                           !.layers = @ \o <<<<"fill", i>>, <<"line", i>>>>],
            colors, i + 1)

\* Effect 3: add the service-area polygons once data and map are ready.
PolygonEffect(m, loaded, data) ==
    IF m = Null \/ ~loaded \/ data = Null THEN m
    ELSE AddGroups(m, GroupColors(data.features, Len(data.features)), 0)

NewMap == [sources |-> <<>>, layers |-> <<>>, center |-> <<134, -28>>]

\* Variant: the map.current test is missing.
MapInitEffect_NoGuard(m) == NewMap

\* Effect 2: create the map unless map.current already holds one.
MapInitEffect(m) == IF m # Null THEN m ELSE NewMap

\* Effect 4: marker, flyTo and service-area check, on the map value m.
CoordinatesEffect(m, coords, data) ==
    IF m = Null \/ coords = NullPoint
    THEN /\ map' = m
         /\ mapCalls' = <<>>
         /\ UNCHANGED marker
    ELSE /\ marker' = coords
         /\ map' = [m EXCEPT !.center = coords]
         /\ mapCalls' = ServiceAreaCheckCalls(data, coords)

MapInit ==
    /\ geoJsonData = Null
    /\ mapLoaded = FALSE
    /\ map = Null
    /\ marker = NullPoint
    /\ coordinates \in {NullPoint} \cup Points
    /\ onServiceAreaCheckGiven \in BOOLEAN
    /\ geoFetch = "idle"
    /\ serviceAreasFile \in Datasets
    /\ mapLast = "init"
    /\ mapCalls = <<>>

\* The four effects at mount, in declaration order.
MapMount ==
    /\ UNCHANGED mapFrame
    /\ mapLast = "init"
    /\ geoFetch' = "pending"
    /\ CoordinatesEffect(PolygonEffect(MapInitEffect(map), mapLoaded, geoJsonData),
                         coordinates, geoJsonData)
    /\ mapLast' = "mount"
    /\ UNCHANGED <<geoJsonData, mapLoaded, coordinates,
                   onServiceAreaCheckGiven, serviceAreasFile>>

\* Variant: effect 4 does not depend on geoJsonData and is not run again.
GeoLoaded_NoRecheck ==
    /\ UNCHANGED mapFrame
    /\ geoFetch = "pending"
    /\ geoFetch' = "loaded"
    /\ geoJsonData' = [features |-> serviceAreasFile]
    /\ map' = PolygonEffect(map, mapLoaded, geoJsonData')
    /\ mapCalls' = <<>>
    /\ mapLast' = "geoLoaded"
    /\ UNCHANGED <<mapLoaded, marker, coordinates, onServiceAreaCheckGiven,
                   serviceAreasFile>>

\* The dataset arrives: setGeoJsonData, then effects 3 and 4 run again.
GeoLoaded ==
    /\ UNCHANGED mapFrame
    /\ geoFetch = "pending"
    /\ geoFetch' = "loaded"
    /\ geoJsonData' = [features |-> serviceAreasFile]
    /\ CoordinatesEffect(PolygonEffect(map, mapLoaded, geoJsonData'),
                         coordinates, geoJsonData')
    /\ mapLast' = "geoLoaded"
    /\ UNCHANGED <<mapLoaded, coordinates, onServiceAreaCheckGiven,
                   serviceAreasFile>>

\* The fetch or res.json() fails: console.error only.
GeoFailed ==
    /\ UNCHANGED mapFrame
    /\ geoFetch = "pending"
    /\ geoFetch' = "failed"
    /\ mapLast' = "geoFailed"
    /\ mapCalls' = <<>>
    /\ UNCHANGED <<geoJsonData, mapLoaded, map, marker, coordinates,
                   onServiceAreaCheckGiven, serviceAreasFile>>

\* The map's 'load' event: setMapLoaded(true), then effect 3 runs again.
MapLoad ==
    /\ UNCHANGED mapFrame
    /\ mapLast # "init"
    /\ ~mapLoaded
    /\ mapLoaded' = TRUE
    /\ map' = PolygonEffect(map, TRUE, geoJsonData)
    /\ mapLast' = "mapLoad"
    /\ mapCalls' = <<>>
    /\ UNCHANGED <<geoJsonData, marker, coordinates, onServiceAreaCheckGiven,
                   geoFetch, serviceAreasFile>>

\* The parent supplies other coordinates: effect 4 runs again.
MapSetCoordinates(c) ==
    /\ UNCHANGED mapFrame
    /\ mapLast # "init"
    /\ c # coordinates
    /\ coordinates' = c
    /\ CoordinatesEffect(map, c, geoJsonData)
    /\ mapLast' = "coordinates"
    /\ UNCHANGED <<geoJsonData, mapLoaded, onServiceAreaCheckGiven, geoFetch,
                   serviceAreasFile>>

\* The parent supplies another callback function: effect 4 runs again.
MapSetCallback ==
    /\ UNCHANGED mapFrame
    /\ mapLast # "init"
    /\ onServiceAreaCheckGiven
    /\ CoordinatesEffect(map, coordinates, geoJsonData)
    /\ mapLast' = "callback"
    /\ UNCHANGED <<geoJsonData, mapLoaded, coordinates,
                   onServiceAreaCheckGiven, geoFetch, serviceAreasFile>>

MapNext ==
    \/ MapMount
    \/ GeoLoaded
    \/ GeoFailed
    \/ MapLoad
    \/ \E c \in {NullPoint} \cup Points : MapSetCoordinates(c)
    \/ MapSetCallback

InitMap == MapInit /\ LeadIdle /\ CalIdle
SpecMap == InitMap /\ [][MapNext]_vars

(***************************************************************************)
(* Properties                                                              *)
(***************************************************************************)
\* All Day Entries of a heat-map response.
AllDays(data) ==
    LET pb == data.priority_breakdown
    IN  pb.critical.days \o pb.urgent.days \o pb.warm.days \o pb.cooling.days

\* All rendered day cells, in document order.
RECURSIVE CellsOf(_)
CellsOf(sections) ==
    IF sections = <<>> THEN <<>> ELSE sections[1].cells \o CellsOf(Tail(sections))

\* C1: in the heat map every rendered day (list row in the critical/urgent
\* tiers, grid cell in the warm/cooling tiers) is disabled exactly when its
\* available_count is 0, every Day Entry of the response is rendered, and a
\* click invokes onDaySelect(day.date, day) with a full Day Entry of the
\* response whose available_count is not 0.
C1_ZeroDaysNotSelectable ==
    /\ HMView = "content" =>
          /\ \A c \in Range(CellsOf(RenderedSections)) :
                /\ c.disabled <=> (c.day.available_count = 0)
                /\ c.kind = (IF c.day.priority \in {"critical", "urgent"}
                             THEN "row" ELSE "card")
          /\ [i \in 1..Len(CellsOf(RenderedSections)) |->
                 CellsOf(RenderedSections)[i].day] = AllDays(heatMapData)
    /\ \A i \in 1..Len(hmCalls) :
          hmCalls[i].fn = "onDaySelect" =>
             /\ hmCalls[i].dayData.available_count > 0
             /\ hmCalls[i].date = hmCalls[i].dayData.date
             /\ hmCalls[i].dayData \in Range(AllDays(heatMapData))
    /\ hmLast.op = "click" => Len(hmCalls) = 1 /\ hmCalls[1].fn = "onDaySelect"

\* A day was selected while another day of the response is disabled.
C1_Witness ==
    /\ hmLast.op = "click"
    /\ HMView = "content"
    /\ \E c \in Range(CellsOf(RenderedSections)) : c.disabled
    /\ \E c \in Range(CellsOf(RenderedSections)) : c.kind = "card" /\ ~c.disabled

\* C2: the rendered tier sections are the fixed sequence critical, urgent,
\* warm, cooling with exactly the tiers whose day list is empty removed, and
\* the days inside each section keep the backend's order.
C2_SectionsInFixedOrder ==
    HMView = "content" =>
       LET pb == heatMapData.priority_breakdown
           nonEmpty == SelectSeq(TierNames, LAMBDA t : pb[t].days # <<>>)
       IN  /\ Len(RenderedSections) = Len(nonEmpty)
           /\ \A i \in 1..Len(nonEmpty) :
                 /\ RenderedSections[i].label = pb[nonEmpty[i]].label
                 /\ RenderedSections[i].total_slots = pb[nonEmpty[i]].total_slots
                 /\ Len(RenderedSections[i].cells) = Len(pb[nonEmpty[i]].days)
                 /\ \A j \in 1..Len(pb[nonEmpty[i]].days) :
                       RenderedSections[i].cells[j].day = pb[nonEmpty[i]].days[j]

\* Two tiers are rendered and the other two are omitted.
C2_Witness ==
    /\ HMView = "content"
    /\ Len(RenderedSections) = 2
    /\ heatMapData.priority_breakdown.critical.days = <<>>

\* C3: selecting a Time Slot invokes onSlotSelect exactly once with the
\* current date, "AM" when slot.hour < 12 and "PM" otherwise (9 -> AM,
\* 14 -> PM, 12 -> PM), whatever the slot's period tag, and the unmodified
\* Time Slot of the response.
C3_SlotDesignationFromHour ==
    /\ dsLast.op = "click" => Len(dsCalls) = 1 /\ dsCalls[1].fn = "onSlotSelect"
    /\ \A i \in 1..Len(dsCalls) :
          dsCalls[i].fn = "onSlotSelect" =>
             LET call == dsCalls[i]
             IN  /\ call.date = dsDate
                 /\ call.period \in {"AM", "PM"}
                 /\ (call.period = "AM") <=> (call.timeSlot.hour < 12)
                 /\ call.timeSlot.hour = 9 => call.period = "AM"
                 /\ call.timeSlot.hour = 14 => call.period = "PM"
                 /\ call.timeSlot.hour = 12 => call.period = "PM"
                 /\ call.timeSlot \in Range(slotsData.slots)

\* A slot of hour 12 tagged morning was selected and reported as PM.
C3_Witness ==
    /\ dsLast.op = "click"
    /\ dsCalls[1].timeSlot.hour = 12
    /\ dsCalls[1].timeSlot.period = "morning"
    /\ dsCalls[1].period = "PM"

\* Title of the bucket of a period tag.
BucketTitle(p) ==
    IF p = "morning" THEN "Morning"
    ELSE IF p = "afternoon" THEN "Afternoon" ELSE "Evening"

\* C4: every Time Slot of the response's slot list appears in exactly one
\* rendered bucket, the one of its period tag, and no rendered button is for
\* a slot that is not in the list.
C4_SlotsPartitioned ==
    DSView = "content" =>
       LET periods == RenderedSlots.periods
           places(slot) == {<<s, b>> \in (1..Len(periods)) \X (1..MaxSlots + 1) :
                               /\ b <= Len(periods[s].buttons)
                               /\ periods[s].buttons[b] = slot}
       IN  /\ \A i \in 1..Len(slotsData.slots) :
                 /\ Cardinality(places(slotsData.slots[i])) = 1
                 /\ \A pl \in places(slotsData.slots[i]) :
                       periods[pl[1]].title = BucketTitle(slotsData.slots[i].period)
           /\ \A s \in 1..Len(periods) :
                 /\ Range(periods[s].buttons) \subseteq Range(slotsData.slots)
                 /\ periods[s].count = Len(periods[s].buttons)

\* A day with slots in two different periods is displayed.
C4_Witness ==
    /\ DSView = "content"
    /\ Len(RenderedSlots.periods) = 2
    /\ Len(slotsData.slots) = 2
    /\ RenderedSlots.periods[2].title = "Evening"

\* C5: after Expand All the expanded-state set holds all section keys, after
\* Collapse All it is empty; the Expand All control is disabled exactly when
\* every section is expanded and the Collapse All control exactly when none
\* is, and in that state the control's handler would change nothing.
C5_ExpandCollapseAll ==
    /\ leadLast.op = "expandAll" => expandedSections = Range(sectionOrder)
    /\ leadLast.op = "collapseAll" => expandedSections = {}
    /\ expandedSections \subseteq Range(sectionOrder)
    /\ LeadRendered =>
          /\ allExpanded <=> (\A k \in Range(sectionOrder) : k \in expandedSections)
          /\ allCollapsed <=> (\A k \in Range(sectionOrder) : k \notin expandedSections)
          /\ allExpanded => ExpandAllSet(expandedSections, leadData) = expandedSections
          /\ allCollapsed => CollapseAllSet = expandedSections

\* Expand All was clicked on a lead whose sections were not all expanded.
C5_Witness ==
    /\ leadLast.op = "expandAll"
    /\ LeadRendered
    /\ allExpanded
    /\ ~allCollapsed

\* Every section collapsed by Collapse All: that control is now disabled.
C5_WitnessCollapsed == leadLast.op = "collapseAll" /\ allCollapsed

\* C6 as stated: after a failed fetch the previously fetched result is no
\* longer held in view state.
C6_ResultDiscardedOnFailure ==
    /\ hmLast.outcome = "failed" => heatMapData = Null
    /\ dsLast.outcome = "failed" => slotsData = Null

\* C6 amended: a failed fetch surfaces the retry control; a result fetched
\* before the failure stays held in view state but is not displayed again
\* until a later fetch succeeds and replaces it.
C6_StaleResultHidden ==
    /\ hmLast.outcome = "failed" => HMView = "error"
    /\ dsLast.outcome = "failed" => DSView = "error"
    /\ hmStale => heatMapData # Null /\ HMView # "content"
    /\ dsStale => slotsData # Null /\ DSView # "content"
    /\ hmLast.outcome = "failed" => (hmStale <=> heatMapData # Null)
    /\ dsLast.outcome = "failed" => (dsStale <=> slotsData # Null)

\* A retry is under way while the result of before the failure is still held.
C6_Witness ==
    /\ hmStale
    /\ hmLast.op = "tryAgain"
    /\ hmLoading
    /\ heatMapData # Null

\* The failure states of a component: loading off, the message displayed
\* with Try Again, the message passed to onError once when it is supplied.
FailureSurfaced(last, loading, error, view, calls) ==
    last.outcome = "failed" =>
       /\ ~loading
       /\ error # NullStr /\ error # ""
       /\ view = "error"
       /\ calls = (IF onErrorGiven
                   THEN <<[fn |-> "onError", message |-> error]>> ELSE <<>>)

\* C7: every failed fetch (missing client or remote-call error) ends with
\* loading = false and a non-empty error string displayed with Try Again,
\* passes that string to onError exactly once when onError is supplied, and
\* a backend request is issued only by Try Again or by the effect of a
\* postcode/date change.
C7_FailuresCaught ==
    /\ [](/\ FailureSurfaced(hmLast, hmLoading, hmError, HMView, hmCalls)
          /\ FailureSurfaced(dsLast, dsLoading, dsError, DSView, dsCalls))
    /\ [][/\ hmInflight' # hmInflight /\ Len(hmInflight') >= Len(hmInflight)
             => hmLast'.op \in {"effect", "tryAgain"}
          /\ dsInflight' # dsInflight /\ Len(dsInflight') >= Len(dsInflight)
             => dsLast'.op \in {"effect", "tryAgain"}
          /\ hmLast'.outcome = "failed" => Len(hmInflight') <= Len(hmInflight)
          /\ dsLast'.outcome = "failed" => Len(dsInflight') <= Len(dsInflight)]_vars

\* A remote-call error was reported to onError with the default message.
C7_Witness ==
    /\ dsLast = [op |-> "settle", outcome |-> "failed"]
    /\ onErrorGiven
    /\ dsError = "Failed to fetch day slots"
    /\ Len(dsCalls) = 1

\* The service-area polygons of the loaded dataset that contain the point.
ContainingAreas(pt) ==
    {i \in 1..Len(geoJsonData.features) :
        /\ geoJsonData.features[i].gtype = "Polygon"
        /\ geoJsonData.features[i].ftype = "service_area"
        /\ booleanPointInPolygon(pt, geoJsonData.features[i].box)}

FirstOf(S) == CHOOSE i \in S : \A j \in S : i <= j

\* C8 as stated: the callback receives (true, name of the first containing
\* service-area polygon) or (false, null).
C8_ReportsPolygonName ==
    \A c \in 1..Len(mapCalls) :
       IF ContainingAreas(coordinates) = {}
       THEN mapCalls[c].inServiceArea = FALSE /\ mapCalls[c].areaName = NullStr
       ELSE /\ mapCalls[c].inServiceArea = TRUE
            /\ mapCalls[c].areaName =
                  geoJsonData.features[FirstOf(ContainingAreas(coordinates))].name

\* C8 amended: the callback receives (true, area) for the first service-area
\* polygon in dataset order that contains the point, where area is that
\* polygon's name or "Unknown Area" when it has no (or an empty) name, and
\* (false, null) when no service-area polygon contains the point.
C8_ReportsFirstContainingArea ==
    \A c \in 1..Len(mapCalls) :
       /\ onServiceAreaCheckGiven /\ geoJsonData # Null /\ coordinates # NullPoint
       /\ IF ContainingAreas(coordinates) = {}
          THEN mapCalls[c].inServiceArea = FALSE /\ mapCalls[c].areaName = NullStr
          ELSE LET f == geoJsonData.features[FirstOf(ContainingAreas(coordinates))]
               IN  /\ mapCalls[c].inServiceArea = TRUE
                   /\ mapCalls[c].areaName =
                         (IF f.name \in {Undefined, ""} THEN "Unknown Area" ELSE f.name)

\* The point lies in two service areas and the first one is reported.
C8_Witness ==
    /\ Len(mapCalls) = 1
    /\ Cardinality(ContainingAreas(coordinates)) = 2
    /\ mapCalls[1].areaName = "South Zone"
    /\ geoJsonData.features[2].name = "North Zone"

\* An unnamed service area contains the point.
C8_WitnessUnknownArea == Len(mapCalls) = 1 /\ mapCalls[1].areaName = "Unknown Area"

\* C9: for a loaded day-slots response with total_slots = 0 the empty-state
\* message is rendered and no period section; with at least one slot the
\* non-empty buckets are rendered in the order morning, afternoon, evening
\* and the empty-state message is not shown.
C9_EmptyStateOrBuckets ==
    DSView = "content" =>
       LET g == slotsData.grouped_by_period
           nonEmpty == SelectSeq(Periods, LAMBDA p : g[p] # <<>>)
       IN  /\ slotsData.total_slots = 0 =>
                 RenderedSlots.empty /\ RenderedSlots.periods = <<>>
           /\ slotsData.total_slots >= 1 /\ slotsData.slots # <<>> =>
                 /\ ~RenderedSlots.empty
                 /\ Len(RenderedSlots.periods) = Len(nonEmpty)
                 /\ Len(nonEmpty) >= 1
                 /\ \A i \in 1..Len(nonEmpty) :
                       /\ RenderedSlots.periods[i].title = BucketTitle(nonEmpty[i])
                       /\ RenderedSlots.periods[i].buttons = g[nonEmpty[i]]
           /\ slotsData.total_slots = 0 \/ slotsData.slots # <<>>

\* A day without slots is displayed.
C9_Witness ==
    /\ DSView = "content"
    /\ slotsData.total_slots = 0
    /\ RenderedSlots.empty

\* A day with a morning and an afternoon slot is displayed.
C9_WitnessBuckets ==
    /\ DSView = "content"
    /\ Len(RenderedSlots.periods) = 2
    /\ RenderedSlots.periods[1].title = "Morning"
    /\ RenderedSlots.periods[2].title = "Afternoon"

\* C10: the sections start fully expanded (all eight keys); toggling a
\* section flips that section's membership only and leaves every other
\* section as it was; toggling the same section twice restores the set.
C10_ToggleIndependent ==
    /\ [](/\ leadLast.op = "mount" =>
               /\ expandedSections = Range(sectionOrder)
               /\ Cardinality(expandedSections) = 8
          /\ \A k \in Range(sectionOrder) :
                ToggleSet(ToggleSet(expandedSections, k), k) = expandedSections)
    /\ [][leadLast'.op = "toggleSection" =>
             /\ leadLast'.key \in expandedSections' <=> leadLast'.key \notin expandedSections
             /\ \A j \in Range(sectionOrder) \ {leadLast'.key} :
                   j \in expandedSections' <=> j \in expandedSections]_vars

\* A collapsed section was expanded again while another one stays collapsed.
C10_Witness ==
    /\ leadLast.op = "toggleSection"
    /\ leadLast.key \in expandedSections
    /\ expandedSections # Range(sectionOrder)

\* C11: fetches are neither cancelled nor sequence-guarded: whichever
\* pending invocation resolves, its response is stored and loading is
\* cleared, whether or not a newer request has been issued since.  (The
\* state the claim says is reachable is C11_Witness.)
C11_StaleResponseOverwrites ==
    [][/\ hmLast'.outcome = "ok" /\ hmInflight' # hmInflight =>
             \E i \in 1..Len(hmInflight) :
                /\ hmInflight' = RemoveAt(hmInflight, i)
                /\ heatMapData' = HeatMapResponse(availability, hmInflight[i])
                /\ ~hmLoading'
       /\ dsLast'.outcome = "ok" /\ dsInflight' # dsInflight =>
             \E i \in 1..Len(dsInflight) :
                /\ dsInflight' = RemoveAt(dsInflight, i)
                /\ slotsData' = DaySlotsResponse(daySlotList, dsInflight[i])
                /\ ~dsLoading']_vars

\* No fetch is in flight and the heat map displays the days of a postcode
\* other than the current one, left by the response that arrived last.
C11_Witness ==
    /\ hmInflight = <<>>
    /\ hmLast = [op |-> "settle", outcome |-> "ok"]
    /\ HMView = "content"
    /\ Len(hmPostcode) = 4
    /\ heatMapData.service_area_name # ServiceAreaNameOf(ParseInt(hmPostcode))

\* The same for the day-slot view: the slots of another date are displayed.
C11_WitnessDaySlots ==
    /\ dsInflight = <<>>
    /\ dsLast = [op |-> "settle", outcome |-> "ok"]
    /\ DSView = "content"
    /\ slotsData.date # dsDate

\* C12 as stated: every change of the postcode (heat map) or of the postcode
\* or date (day-slot view) issues a backend request for the new value, and
\* once no fetch is pending and the content is displayed, it is the content
\* fetched for the current postcode / date.
C12_EveryChangeRefetches ==
    /\ [](/\ hmInflight = <<>> /\ HMView = "content" =>
               heatMapData.service_area_name
                  = ServiceAreaNameOf(ParseInt(hmPostcode))
          /\ dsInflight = <<>> /\ DSView = "content" => slotsData.date = dsDate)
    /\ [][/\ hmPostcode' # hmPostcode =>
                hmInflight' = Append(hmInflight, HeatMapRequest(hmPostcode', 14))
          /\ <<dsPostcode', dsDate'>> # <<dsPostcode, dsDate>> =>
                dsInflight' = Append(dsInflight, DaySlotsRequest(dsPostcode', dsDate'))]_vars

\* C12 amended: with a backend client, a change of the heat-map postcode to
\* a 4-character value and every change of the day-slot postcode or date
\* issue a request for the new value; a change to a postcode of another
\* length, or without a client, issues none.  When the only pending fetch is
\* the one for the current postcode / date and it succeeds, nothing is
\* pending any more, the data held are those fetched for the current
\* postcode / date, and they are displayed unless an error is still set.
C12_ValidChangeRefetches ==
    [][/\ hmPostcode' # hmPostcode =>
             IF supabase /\ hmPostcode' # <<>> /\ Len(hmPostcode') = 4
             THEN hmInflight' = Append(hmInflight, HeatMapRequest(hmPostcode', 14))
             ELSE hmInflight' = hmInflight
       /\ <<dsPostcode', dsDate'>> # <<dsPostcode, dsDate>> =>
             IF supabase
             THEN dsInflight' = Append(dsInflight, DaySlotsRequest(dsPostcode', dsDate'))
             ELSE dsInflight' = dsInflight
       /\ /\ hmInflight = <<HeatMapRequest(hmPostcode, 14)>>
          /\ hmLast'.outcome = "ok"
          => /\ hmInflight' = <<>>
             /\ heatMapData'.service_area_name
                   = ServiceAreaNameOf(ParseInt(hmPostcode'))
             /\ hmError = NullStr => HMView' = "content"
       /\ /\ dsInflight = <<DaySlotsRequest(dsPostcode, dsDate)>>
          /\ dsLast'.outcome = "ok"
          => /\ dsInflight' = <<>>
             /\ slotsData'.date = dsDate'
             /\ dsError = NullStr => DSView' = "content"]_vars

\* A date change issued a second request while the first is still pending.
C12_Witness ==
    /\ dsLast = [op |-> "effect", outcome |-> "pending"]
    /\ Len(dsInflight) = 2
    /\ dsInflight[2] = DaySlotsRequest(dsPostcode, dsDate)
    /\ dsInflight[1].date # dsDate

\* The fetch for the current postcode was the last to complete and succeeded.
C12_WitnessDisplayed ==
    /\ hmLast = [op |-> "settle", outcome |-> "ok"]
    /\ hmInflight = <<>>
    /\ HMView = "content"
    /\ heatMapData.service_area_name = ServiceAreaNameOf(ParseInt(hmPostcode))

\* Number of positions of a sequence that hold x.
Occurrences(seq, x) == Cardinality({k \in 1..Len(seq) : seq[k] = x})

\* C13: each source id service-areas-i exists at most once, with exactly one
\* fill layer and one line layer; once dataset and map are ready there is one
\* source per color group; running the layer-creation effect again adds
\* neither source nor layer, and running the map-initialization effect again
\* keeps the one map instance.
C13_LayerCreationIdempotent ==
    /\ mapLast # "init" => map # Null
    /\ map # Null =>
          /\ \A i \in Range(map.sources) :
                /\ Occurrences(map.sources, i) = 1
                /\ Occurrences(map.layers, <<"fill", i>>) = 1
                /\ Occurrences(map.layers, <<"line", i>>) = 1
          /\ \A l \in Range(map.layers) :
                l[1] \in {"fill", "line"} /\ l[2] \in Range(map.sources)
          /\ mapLoaded /\ geoJsonData # Null =>
                Range(map.sources) =
                   {k - 1 : k \in 1..Cardinality(
                       {getPolygonColor(f.style) :
                           f \in {g \in Range(geoJsonData.features) :
                                     IsServiceAreaPolygon(g)}})}
          /\ ~(mapLoaded /\ geoJsonData # Null) => map.sources = <<>>
          /\ PolygonEffect(map, mapLoaded, geoJsonData) = map
          /\ MapInitEffect(map) = map

\* Two color groups were added as two sources with two layers each.
C13_Witness ==
    /\ map # Null
    /\ mapLoaded
    /\ geoJsonData # Null
    /\ Len(map.sources) = 2
    /\ Len(map.layers) = 4

\* C14: the heat map issues a backend request only for a postcode of exactly
\* 4 characters: whenever the last handler issued an invocation, the
\* postcode it was issued for has length 4.
C14_OnlyFourCharPostcodesFetched ==
    hmLast.outcome = "pending" => Len(hmPostcode) = 4

\* C15: in both components loading is true exactly when at least one fetch
\* of the component is in flight.
C15_LoadingIffInflight ==
    /\ hmLoading <=> hmInflight # <<>>
    /\ dsLoading <=> dsInflight # <<>>

\* C16: with a reporting callback, the step after which both a coordinate
\* pair is supplied and the dataset is loaded (the dataset arrives, or the
\* coordinates change) invokes the callback once with the membership result
\* of the current coordinates; the callback is never invoked while the
\* dataset is not loaded, and inServiceArea is true exactly when areaName is
\* not null.
C16_CheckReportedOnceBothKnown ==
    /\ [](\A c \in 1..Len(mapCalls) :
             /\ geoJsonData # Null /\ coordinates # NullPoint
             /\ mapCalls[c].inServiceArea <=> mapCalls[c].areaName # NullStr
             /\ mapCalls[c].inServiceArea <=> ContainingAreas(coordinates) # {})
    /\ [][/\ onServiceAreaCheckGiven
          /\ coordinates' # NullPoint /\ geoJsonData' # Null
          /\ coordinates' # coordinates \/ geoJsonData' # geoJsonData
          => /\ Len(mapCalls') = 1
             /\ mapCalls'[1].fn = "onServiceAreaCheck"
             /\ mapCalls'[1].inServiceArea <=>
                   \E i \in 1..Len(geoJsonData'.features) :
                      /\ geoJsonData'.features[i].gtype = "Polygon"
                      /\ geoJsonData'.features[i].ftype = "service_area"
                      /\ booleanPointInPolygon(coordinates',
                                               geoJsonData'.features[i].box)]_vars

\* The coordinates were supplied first; the arriving dataset triggered the
\* report that the point lies in a service area.
C16_Witness ==
    /\ mapLast = "geoLoaded"
    /\ Len(mapCalls) = 1
    /\ mapCalls[1].inServiceArea

\* The dataset was loaded first; new coordinates outside every area reported.
C16_WitnessCoordinatesLast ==
    /\ mapLast = "coordinates"
    /\ Len(mapCalls) = 1
    /\ ~mapCalls[1].inServiceArea

====
